---- MODULE Spec2Model ----
(***************************************************************************)
(* Model of the teleprompter's script tracker (hooks/useScriptTracker.ts): *)
(* the tokenizer, the normalizer, the Levenshtein similarity scorer, the   *)
(* window search advanceCursor, and the tracker session kept by the        *)
(* useScriptTracker hook (tokens, cursorIndex, isComplete and the refs).   *)
(*                                                                         *)
(* A string is a sequence of one-character strings; a word list is a       *)
(* sequence of strings. Indices are 0-based in the code: token i of the    *)
(* code is tokens[i + 1] here, and cursorIndex keeps the code's values     *)
(* (-1 = not started).  Similarity scores are exact fractions <<n, d>>.    *)
(*                                                                         *)
(* Three specifications:                                                   *)
(*   Spec          the session driven as the page drives it                *)
(*   SpecScenario  a read-through: a script, final updates, reset          *)
(*   SpecCalls     normalize, tokenize, levenshtein and wordSimilarity     *)
(*                 called on their own on every small argument             *)
(***************************************************************************)
EXTENDS Integers, Sequences, FiniteSets, TLC

(***************************************************************************)
(* Program constants.                                                      *)
(***************************************************************************)
LOOKAHEAD == 16
LOOKBEHIND == 2
MIN_MATCH_LEN == 2
\* the confidence threshold 0.45 of advanceCursor, as the fraction 45/100
ThresholdNum == 45
ThresholdDen == 100
\* capacity of the rolling buffer of spoken words: .slice(-20)
BufferCap == 20
\* number of trailing spoken words that make the anchor: .slice(-3)
AnchorLen == 3

(***************************************************************************)
(* Characters.                                                             *)
(***************************************************************************)
UpperChars == <<"A","B","C","D","E","F","G","H","I","J","K","L","M",
                "N","O","P","Q","R","S","T","U","V","W","X","Y","Z">>
LowerChars == <<"a","b","c","d","e","f","g","h","i","j","k","l","m",
                "n","o","p","q","r","s","t","u","v","w","x","y","z">>
DigitChars == {"0","1","2","3","4","5","6","7","8","9"}
\* the characters /\s/ matches, among those the model uses
Whitespace == {" ", "\t", "\n"}
\* the character class [a-z0-9'] that normalize keeps
KeptChars == {LowerChars[i] : i \in 1..26} \cup DigitChars \cup {"'"}

Min(a, b) == IF a <= b THEN a ELSE b
Max(a, b) == IF a >= b THEN a ELSE b

\* String.prototype.toLowerCase, one character
toLowerCase(c) ==
  IF \E i \in 1..26 : UpperChars[i] = c
    THEN LowerChars[CHOOSE i \in 1..26 : UpperChars[i] = c]
    ELSE c

\* Array.prototype.slice(-n): the last n elements (all of them if fewer)
SliceLast(s, n) ==
  IF Len(s) <= n THEN s ELSE SubSeq(s, Len(s) - n + 1, Len(s))

\* Array.prototype.slice(from, to), 0-based, to exclusive, 0 <= from
Slice(s, from, to) ==
  IF to <= from THEN <<>> ELSE SubSeq(s, from + 1, Min(to, Len(s)))

(***************************************************************************)
(* normalize: word.toLowerCase().replace(/[^a-z0-9']/g, "")                *)
(***************************************************************************)
IsKept(c) == c \in KeptChars

\* a variant of normalize that matches case-insensitively instead of
\* lower-casing: word.replace(/[^a-z0-9']/gi, "")
normalizeCaseInsensitive(word) ==
  LET keep(c) == IsKept(toLowerCase(c)) IN SelectSeq(word, keep)

normalize(word) ==
  SelectSeq([i \in 1..Len(word) |-> toLowerCase(word[i])], IsKept)

(***************************************************************************)
(* String.prototype.split(/\s+/): the fragments between maximal runs of    *)
(* whitespace, empty fragments included ("" splits to <<"">>, a leading    *)
(* or trailing run yields an empty first or last fragment).                *)
(***************************************************************************)
RECURSIVE SplitFrom(_, _, _, _)
SplitFrom(text, i, cur, acc) ==
  IF i > Len(text) THEN Append(acc, cur)
  ELSE IF text[i] \in Whitespace
    THEN IF i < Len(text) /\ text[i + 1] \in Whitespace
           THEN SplitFrom(text, i + 1, cur, acc)
           ELSE SplitFrom(text, i + 1, <<>>, Append(acc, cur))
    ELSE SplitFrom(text, i + 1, Append(cur, text[i]), acc)

split(text) == SplitFrom(text, 1, <<>>, <<>>)

\* .filter(Boolean) on a list of strings: drops the empty ones
NonEmpty(w) == w # <<>>
filterBoolean(ws) == SelectSeq(ws, NonEmpty)

\* String.prototype.trim
RECURSIVE trimStart(_)
trimStart(text) ==
  IF text # <<>> /\ Head(text) \in Whitespace THEN trimStart(Tail(text)) ELSE text

RECURSIVE trimEnd(_)
trimEnd(text) ==
  IF text # <<>> /\ text[Len(text)] \in Whitespace
    THEN trimEnd(SubSeq(text, 1, Len(text) - 1)) ELSE text

trim(text) == trimEnd(trimStart(text))

(***************************************************************************)
(* tokenize: one ScriptToken per non-empty fragment, index = position.     *)
(***************************************************************************)
\* a variant of tokenize without .filter(Boolean)
tokenizeNoFilter(text) ==
  LET words == split(text)
  IN  [i \in 1..Len(words) |->
         [word |-> words[i], normalized |-> normalize(words[i]), index |-> i - 1]]

tokenize(text) ==
  LET words == filterBoolean(split(text))
  IN  [i \in 1..Len(words) |->
         [word |-> words[i], normalized |-> normalize(words[i]), index |-> i - 1]]

(***************************************************************************)
(* levenshtein: the matrix of the code, filled row by row.  Row i is the   *)
(* sequence matrix[i][0..a.length], kept at positions 1..a.length+1.       *)
(***************************************************************************)
Min3(x, y, z) == Min(x, Min(y, z))

RECURSIVE FillRow(_, _, _, _, _)
FillRow(prev, cur, a, bi, j) ==
  IF j > Len(a) THEN cur
  ELSE LET cell == IF bi = a[j]
                     THEN prev[j]
                     ELSE Min3(prev[j] + 1, cur[j] + 1, prev[j + 1] + 1)
       IN  FillRow(prev, Append(cur, cell), a, bi, j + 1)

RECURSIVE FillMatrix(_, _, _, _)
FillMatrix(prev, a, b, i) ==
  IF i > Len(b) THEN prev
  ELSE FillMatrix(FillRow(prev, <<i>>, a, b[i], 1), a, b, i + 1)

levenshtein(a, b) ==
  IF a = b THEN 0
  ELSE IF Len(a) = 0 THEN Len(b)
  ELSE IF Len(b) = 0 THEN Len(a)
  ELSE FillMatrix([j \in 1..Len(a) + 1 |-> j - 1], a, b, 1)[Len(a) + 1]

(***************************************************************************)
(* Exact fractions <<numerator, denominator>>, denominator > 0.            *)
(***************************************************************************)
FracAdd(x, y) == <<x[1] * y[2] + y[1] * x[2], x[2] * y[2]>>
FracDiv(x, n) == <<x[1], x[2] * n>>
FracGT(x, y) == x[1] * y[2] > y[1] * x[2]

(***************************************************************************)
(* wordSimilarity: 1 - dist / maxLen, 0 when either word is empty.         *)
(***************************************************************************)
\* a variant of wordSimilarity that tests equality before emptiness
wordSimilarityNoGuard(a, b) ==
  IF a = b THEN <<1, 1>>
  ELSE IF a = <<>> \/ b = <<>> THEN <<0, 1>>
  ELSE <<Max(Len(a), Len(b)) - levenshtein(a, b), Max(Len(a), Len(b))>>

\* a variant of wordSimilarity that divides by the shorter length
wordSimilarityMinLen(a, b) ==
  IF a = <<>> \/ b = <<>> THEN <<0, 1>>
  ELSE IF a = b THEN <<1, 1>>
  ELSE <<Min(Len(a), Len(b)) - levenshtein(a, b), Min(Len(a), Len(b))>>

\* a variant of wordSimilarity without the edit distance: exact words only
wordSimilarityExact(a, b) ==
  IF a = <<>> \/ b = <<>> THEN <<0, 1>>
  ELSE IF a = b THEN <<1, 1>> ELSE <<0, 1>>

wordSimilarity(a, b) ==
  IF a = <<>> \/ b = <<>> THEN <<0, 1>>
  ELSE IF a = b THEN <<1, 1>>
  ELSE LET maxLen == Max(Len(a), Len(b))
       IN  IF maxLen = 0 THEN <<1, 1>>
           ELSE <<maxLen - levenshtein(a, b), maxLen>>

(***************************************************************************)
(* advanceCursor: slide the anchor (the last 3 spoken words, normalized,   *)
(* empty ones dropped) over the window of tokens around cursorStart.       *)
(***************************************************************************)
Threshold == <<ThresholdNum, ThresholdDen>>

\* a variant of Anchor that takes the oldest words: .slice(0, 3)
AnchorOldest(spokenWords) ==
  filterBoolean([i \in 1..Len(Slice(spokenWords, 0, AnchorLen)) |->
                   normalize(Slice(spokenWords, 0, AnchorLen)[i])])

Anchor(spokenWords) ==
  filterBoolean([i \in 1..Len(SliceLast(spokenWords, AnchorLen)) |->
                   normalize(SliceLast(spokenWords, AnchorLen)[i])])

\* a variant of WindowStart that looks as far behind as ahead
WindowStartWide(cursorStart) == Max(0, cursorStart - LOOKAHEAD)

WindowStart(cursorStart) == Max(0, cursorStart - LOOKBEHIND)
\* a variant of WindowEnd that searches to the end of the script
WindowEndWhole(tokens_, cursorStart) == Len(tokens_)

WindowEnd(tokens_, cursorStart) == Min(Len(tokens_), cursorStart + LOOKAHEAD)
WindowTokens(tokens_, cursorStart) ==
  Slice(tokens_, WindowStart(cursorStart), WindowEnd(tokens_, cursorStart))

\* the inner loop over ai: the sum of the similarities at offset wi
RECURSIVE ScoreSum(_, _, _, _)
ScoreSum(anchor, windowTokens, wi, ai) ==
  IF ai >= Len(anchor) THEN <<0, 1>>
  ELSE LET scriptWord == IF wi + ai + 1 <= Len(windowTokens)
                           THEN windowTokens[wi + ai + 1].normalized
                           ELSE <<>>
           spoken == anchor[ai + 1]
           rest == ScoreSum(anchor, windowTokens, wi, ai + 1)
       IN  IF Len(scriptWord) < MIN_MATCH_LEN /\ spoken # scriptWord
             THEN rest
             ELSE FracAdd(wordSimilarity(spoken, scriptWord), rest)

\* score /= anchor.length
OffsetScore(anchor, windowTokens, wi) ==
  FracDiv(ScoreSum(anchor, windowTokens, wi, 0), Len(anchor))

\* a variant of Eligible without the confidence threshold
EligibleAnyScore(score, bestScore) == FracGT(score, bestScore)

\* a variant of Eligible that lets a later offset win a tie: score >= bestScore
EligibleOrEqual(score, bestScore) ==
  ~FracGT(bestScore, score) /\ FracGT(score, Threshold)

\* if (score > bestScore && score > 0.45)
Eligible(score, bestScore) == FracGT(score, bestScore) /\ FracGT(score, Threshold)

\* a variant of MatchEnd that forgets the - 1
MatchEndOffByOne(windowStart, wi, anchorLength) == windowStart + wi + anchorLength

\* bestPos = windowStart + wi + anchor.length - 1: the last token of the match
MatchEnd(windowStart, wi, anchorLength) == windowStart + wi + anchorLength - 1

\* the outer loop over wi, carrying bestScore and bestPos
RECURSIVE Slide(_, _, _, _, _, _)
Slide(anchor, windowTokens, windowStart, wi, bestScore, bestPos) ==
  IF wi > Len(windowTokens) - Len(anchor) THEN bestPos
  ELSE LET score == OffsetScore(anchor, windowTokens, wi)
       IN  IF Eligible(score, bestScore)
             THEN Slide(anchor, windowTokens, windowStart, wi + 1,
                        score, MatchEnd(windowStart, wi, Len(anchor)))
             ELSE Slide(anchor, windowTokens, windowStart, wi + 1,
                        bestScore, bestPos)

advanceCursor(spokenWords, tokens_, cursorStart) ==
  LET anchor == Anchor(spokenWords)
  IN  IF Len(anchor) = 0 THEN cursorStart
      ELSE Slide(anchor, WindowTokens(tokens_, cursorStart),
                 WindowStart(cursorStart), 0, <<-1, 1>>, cursorStart)

(***************************************************************************)
(* The tracker session of useScriptTracker.                                *)
(*   tokens, cursorIndex, isComplete   the hook's React state              *)
(*   tokensRef, spokenBufferRef, interimWordsRef   the hook's refs         *)
(* History variables, read by the properties only:                         *)
(*   lastOp      the operation that ran last; a processSpeech call that    *)
(*               returned at one of its two guards is "finalNoOp" or       *)
(*               "interimNoOp"                                             *)
(*   prevCursor  cursorIndex before the operation that ran last            *)
(*   heard       every word of the final updates that took effect since    *)
(*               the buffers were last cleared, in arrival order           *)
(*   nFinal      the number of those final updates (bounds the runs)       *)
(* Operations are issued one at a time, and React applies the state        *)
(* updaters an operation queued before the next operation is issued.       *)
(***************************************************************************)
VARIABLES tokens, cursorIndex, isComplete,
          tokensRef, spokenBufferRef, interimWordsRef,
          lastOp, prevCursor, heard, nFinal,
          called, argA, argB, returned,
          status, mode, recognition, scriptText, speechError,
          recognitionRef, superseded, restartTimerRef, isStartingRef,
          awaiting, isSupported, hookFile, lastError, created,
          pending, shadow

sessionVars == <<tokens, cursorIndex, isComplete,
                 tokensRef, spokenBufferRef, interimWordsRef>>
\* one call of a module-level function of the file, outside any session:
\* its name, its arguments (argB is "" for a one-argument function) and
\* the value it returned
callVars == <<called, argA, argB, returned>>
\* the page around the tracker: speech.status, the page's mode, and the
\* recognizer that createAndStart made last ("started", "stopped" once
\* stop() was called on it and it may still deliver what it heard, "none"
\* before the first one and once it has ended or was aborted)
\* useSpeechRecognition in detail:
\*   recognitionRef    what recognitionRef.current holds: "null", or the
\*                     state of the recognizer it refers to ("started",
\*                     "stopping" after stop(), "unstarted" when start()
\*                     threw, "ended" after its onend)
\*   superseded        how many recognizers that recognitionRef no longer
\*                     holds have yet to fire onend: those left by stop()
\*                     (stopping) and those aborted by createAndStart
\*   restartTimerRef   the restart timer is set
\*   isStartingRef     isStartingRef.current
\*   awaiting          how many calls of start() and of resume() wait at
\*                     await ensureMicPermission()
\*   isSupported       the browser has SpeechRecognition
\*   hookFile          which of the two files of the hook is built
\*   lastError         event.error of the last rec.onerror ("null" before)
\*   created           what the last step did in createAndStart: "none",
\*                     "started" (new SpeechRecognition(), start()), or
\*                     "threw" (start() threw)
hookVars == <<recognitionRef, superseded, restartTimerRef, isStartingRef,
              awaiting, isSupported, hookFile, lastError, created>>
\* scriptText and speechError are state of the page
pageVars == <<status, mode, recognition, scriptText, speechError, hookVars>>
\* the state updates that handlers have queued and React has yet to apply,
\* and the session that the same calls give when each one is applied
\* before the next is made
batchVars == <<pending, shadow>>
\* what the handlers of the tracker leave alone when every call is applied
\* before the next one is made
outsideVars == <<callVars, pageVars, batchVars>>
vars == <<tokens, cursorIndex, isComplete,
          tokensRef, spokenBufferRef, interimWordsRef,
          lastOp, prevCursor, heard, nFinal,
          called, argA, argB, returned,
          status, mode, recognition, scriptText, speechError,
          recognitionRef, superseded, restartTimerRef, isStartingRef,
          awaiting, isSupported, hookFile, lastError, created,
          pending, shadow>>

\* the session as one record
Session ==
  [tokens |-> tokens, cursorIndex |-> cursorIndex, isComplete |-> isComplete,
   tokensRef |-> tokensRef, spokenBufferRef |-> spokenBufferRef,
   interimWordsRef |-> interimWordsRef]

\* the next state of the session is the record s
Becomes(s) ==
  /\ tokens' = s.tokens
  /\ cursorIndex' = s.cursorIndex
  /\ isComplete' = s.isComplete
  /\ tokensRef' = s.tokensRef
  /\ spokenBufferRef' = s.spokenBufferRef
  /\ interimWordsRef' = s.interimWordsRef

(***************************************************************************)
(* Inputs of the model.                                                    *)
(***************************************************************************)
\* final updates that take effect between two clears of the buffers
MaxFinals == 3

\* "Ab cd,\na  gh ab cd ": six tokens, punctuation, a capital, a one-letter word
ScriptMain == <<"A","b"," ","c","d",",","\n","a"," "," ","g","h"," ",
                "a","b"," ","c","d"," ">>
\* "ab": a script of one token
ScriptOne == <<"a","b">>
\* " \n": a script without words
ScriptBlank == <<" ","\n">>
Scripts == {ScriptMain, ScriptOne, ScriptBlank}

\* " ab cd": the first two words of the script
SayAbCd == <<" ","a","b"," ","c","d">>
\* "Gi": one substituted letter away from "gh"
SayGi == <<"G","i">>
\* "zz": like no word of the script
SayZz == <<"z","z">>
\* "gh zz a ab cd zz zz": seven words
SayLong == <<"g","h"," ","z","z"," ","a"," ","a","b"," ","c","d"," ",
             "z","z"," ","z","z">>
\* " \t": no words
SayBlank == <<" ","\t">>

FinalTranscripts == {SayAbCd, SayZz, SayLong, SayBlank}
InterimTranscripts == {SayAbCd, SayGi, SayBlank}

(***************************************************************************)
(* Initial state: useState([]), useState(-1), useState(false), empty refs. *)
(***************************************************************************)
\* no function has been called outside the session
NoCall ==
  /\ called = "none"
  /\ argA = <<>>
  /\ argB = <<>>
  /\ returned = <<>>

InitSession ==
  [tokens |-> <<>>, cursorIndex |-> -1, isComplete |-> FALSE,
   tokensRef |-> <<>>, spokenBufferRef |-> <<>>, interimWordsRef |-> <<>>]

\* useState<SpeechStatus>("idle"), useState<"edit" | "present">("edit"),
\* recognitionRef = useRef(null)
\* the hook at mount, but for the browser and the file of the hook
NoRecognizer ==
  /\ status = "idle"
  /\ recognition = "none"
  /\ recognitionRef = "null"
  /\ superseded = [stopping |-> 0, aborted |-> 0]
  /\ restartTimerRef = FALSE
  /\ isStartingRef = FALSE
  /\ awaiting = [start |-> 0, resume |-> 0]
  /\ lastError = "null"
  /\ created = "none"

\* a short text in the place of SAMPLE_SCRIPT
SampleScript == ScriptMain

NoPage ==
  /\ NoRecognizer
  /\ mode = "edit"
  /\ scriptText = SampleScript
  /\ speechError = "null"
  /\ isSupported = TRUE
  /\ hookFile = "src/hooks/useSpeechRecognition.ts"

\* nothing is queued
NoBatch ==
  /\ pending = <<>>
  /\ shadow = InitSession

Init ==
  /\ tokens = InitSession.tokens
  /\ cursorIndex = InitSession.cursorIndex
  /\ isComplete = InitSession.isComplete
  /\ tokensRef = InitSession.tokensRef
  /\ spokenBufferRef = InitSession.spokenBufferRef
  /\ interimWordsRef = InitSession.interimWordsRef
  /\ lastOp = "init"
  /\ prevCursor = -1
  /\ heard = <<>>
  /\ nFinal = 0
  /\ NoCall
  /\ NoPage
  /\ NoBatch

(***************************************************************************)
(* setScript(text)                                                         *)
(***************************************************************************)
\* a variant of setScript that forgets to clear the spoken buffer
setScriptKeepBuffer(s, text) ==
  LET toks == tokenize(text)
  IN  [s EXCEPT !.tokensRef = toks,
                !.tokens = toks,
                !.cursorIndex = -1,
                !.isComplete = FALSE,
                !.interimWordsRef = <<>>]

setScript(s, text) ==
  LET toks == tokenize(text)
  IN  [s EXCEPT !.tokensRef = toks,
                !.tokens = toks,
                !.cursorIndex = -1,
                !.isComplete = FALSE,
                !.spokenBufferRef = <<>>,
                !.interimWordsRef = <<>>]

(***************************************************************************)
(* processSpeech(transcript, isFinal)                                      *)
(***************************************************************************)
\* a variant of TranscriptWords without .filter(Boolean)
TranscriptWordsNoFilter(transcript) == split(trim(transcript))

\* transcript.trim().split(/\s+/).filter(Boolean)
TranscriptWords(transcript) == filterBoolean(split(trim(transcript)))

\* the two guards: no script loaded yet, or no words in the transcript
IsNoOp(s, transcript) ==
  Len(s.tokensRef) = 0 \/ Len(TranscriptWords(transcript)) = 0

\* a variant of PushWords that keeps the oldest words: .slice(0, 20)
PushWordsKeepOldest(buffer, words) == Slice(buffer \o words, 0, BufferCap)

\* [...spokenBufferRef.current, ...words].slice(-20)
PushWords(buffer, words) == SliceLast(buffer \o words, BufferCap)

\* a variant of CommitCursor that returns the candidate unconditionally
CommitCursorAlways(newCursor, prev) == newCursor

\* return newCursor > prev ? newCursor : prev
CommitCursor(newCursor, prev) == IF newCursor > prev THEN newCursor ELSE prev

\* a variant of ReachesEnd that fires one token early
ReachesEndEarly(newCursor, currentTokens) == newCursor >= Len(currentTokens) - 2

\* if (newCursor >= currentTokens.length - 1) setIsComplete(true)
ReachesEnd(newCursor, currentTokens) == newCursor >= Len(currentTokens) - 1

\* a variant of processSpeechFinal that forgets interimWordsRef.current = []
processSpeechFinalKeepInterim(s, transcript) ==
  LET currentTokens == s.tokensRef
      words == TranscriptWords(transcript)
      buffer == PushWords(s.spokenBufferRef, words)
      newCursor == advanceCursor(buffer, currentTokens, Max(0, s.cursorIndex))
  IN  IF IsNoOp(s, transcript) THEN s
      ELSE [s EXCEPT !.spokenBufferRef = buffer,
                     !.isComplete = IF ReachesEnd(newCursor, currentTokens)
                                      THEN TRUE ELSE @,
                     !.cursorIndex = CommitCursor(newCursor, @)]

processSpeechFinal(s, transcript) ==
  LET currentTokens == s.tokensRef
      words == TranscriptWords(transcript)
      buffer == PushWords(s.spokenBufferRef, words)
      newCursor == advanceCursor(buffer, currentTokens, Max(0, s.cursorIndex))
  IN  IF IsNoOp(s, transcript) THEN s
      ELSE [s EXCEPT !.interimWordsRef = <<>>,
                     !.spokenBufferRef = buffer,
                     !.isComplete = IF ReachesEnd(newCursor, currentTokens)
                                      THEN TRUE ELSE @,
                     !.cursorIndex = CommitCursor(newCursor, @)]

\* a variant of processSpeechInterim that stores the interim words in the
\* spoken buffer
processSpeechInterimPersist(s, transcript) ==
  LET currentTokens == s.tokensRef
      words == TranscriptWords(transcript)
      combined == SliceLast(s.spokenBufferRef \o words, BufferCap)
      newCursor == advanceCursor(combined, currentTokens, Max(0, s.cursorIndex))
  IN  IF IsNoOp(s, transcript) THEN s
      ELSE [s EXCEPT !.interimWordsRef = words,
                     !.spokenBufferRef = combined,
                     !.cursorIndex = CommitCursor(newCursor, @)]

\* a variant of processSpeechInterim that searches with the interim words
\* alone
processSpeechInterimWordsOnly(s, transcript) ==
  LET currentTokens == s.tokensRef
      words == TranscriptWords(transcript)
      combined == SliceLast(words, BufferCap)
      newCursor == advanceCursor(combined, currentTokens, Max(0, s.cursorIndex))
  IN  IF IsNoOp(s, transcript) THEN s
      ELSE [s EXCEPT !.interimWordsRef = words,
                     !.cursorIndex = CommitCursor(newCursor, @)]

processSpeechInterim(s, transcript) ==
  LET currentTokens == s.tokensRef
      words == TranscriptWords(transcript)
      combined == SliceLast(s.spokenBufferRef \o words, BufferCap)
      newCursor == advanceCursor(combined, currentTokens, Max(0, s.cursorIndex))
  IN  IF IsNoOp(s, transcript) THEN s
      ELSE [s EXCEPT !.interimWordsRef = words,
                     !.cursorIndex = CommitCursor(newCursor, @)]

processSpeech(s, transcript, isFinal) ==
  IF isFinal THEN processSpeechFinal(s, transcript)
             ELSE processSpeechInterim(s, transcript)

(***************************************************************************)
(* jumpTo(index) and reset()                                               *)
(***************************************************************************)
\* a variant of jumpTo that only moves the cursor forward
jumpToMonotone(s, index) ==
  [s EXCEPT !.cursorIndex = CommitCursor(index, @),
            !.isComplete = FALSE,
            !.spokenBufferRef = <<>>,
            !.interimWordsRef = <<>>]

\* a variant of jumpTo that forgets setIsComplete(false)
jumpToKeepComplete(s, index) ==
  [s EXCEPT !.cursorIndex = index,
            !.spokenBufferRef = <<>>,
            !.interimWordsRef = <<>>]

\* a variant of jumpTo that keeps the spoken buffer
jumpToKeepHistory(s, index) ==
  [s EXCEPT !.cursorIndex = index,
            !.isComplete = FALSE,
            !.interimWordsRef = <<>>]

jumpTo(s, index) ==
  [s EXCEPT !.cursorIndex = index,
            !.isComplete = FALSE,
            !.spokenBufferRef = <<>>,
            !.interimWordsRef = <<>>]

\* a variant of reset that forgets setIsComplete(false)
resetKeepComplete(s) ==
  [s EXCEPT !.cursorIndex = -1,
            !.spokenBufferRef = <<>>,
            !.interimWordsRef = <<>>]

\* a variant of reset that also drops the script
resetDropTokens(s) ==
  [s EXCEPT !.tokens = <<>>,
            !.tokensRef = <<>>,
            !.cursorIndex = -1,
            !.isComplete = FALSE,
            !.spokenBufferRef = <<>>,
            !.interimWordsRef = <<>>]

reset(s) ==
  [s EXCEPT !.cursorIndex = -1,
            !.isComplete = FALSE,
            !.spokenBufferRef = <<>>,
            !.interimWordsRef = <<>>]

(***************************************************************************)
(* The session driven as the page drives it.  A word is tapped only where  *)
(* one is rendered: onClick={() => tracker.jumpTo(i)} for i over tokens.   *)
(***************************************************************************)
SetScript ==
  \E text \in Scripts :
    /\ Becomes(setScript(Session, text))
    /\ lastOp' = "setScript"
    /\ prevCursor' = cursorIndex
    /\ heard' = <<>>
    /\ nFinal' = 0
    /\ UNCHANGED outsideVars

FinalSpeech ==
  \E t \in FinalTranscripts :
    /\ Becomes(processSpeech(Session, t, TRUE))
    /\ lastOp' = IF IsNoOp(Session, t) THEN "finalNoOp" ELSE "final"
    /\ prevCursor' = cursorIndex
    /\ IF IsNoOp(Session, t)
         THEN UNCHANGED <<heard, nFinal>>
         ELSE /\ nFinal < MaxFinals
              /\ nFinal' = nFinal + 1
              /\ heard' = heard \o TranscriptWords(t)
    /\ UNCHANGED outsideVars

InterimSpeech ==
  \E t \in InterimTranscripts :
    /\ Becomes(processSpeech(Session, t, FALSE))
    /\ lastOp' = IF IsNoOp(Session, t) THEN "interimNoOp" ELSE "interim"
    /\ prevCursor' = cursorIndex
    /\ UNCHANGED <<heard, nFinal>>
    /\ UNCHANGED outsideVars

JumpTo ==
  \E i \in 0..(Len(tokens) - 1) :
    /\ Becomes(jumpTo(Session, i))
    /\ lastOp' = "jumpTo"
    /\ prevCursor' = cursorIndex
    /\ heard' = <<>>
    /\ nFinal' = 0
    /\ UNCHANGED outsideVars

Reset ==
  /\ Becomes(reset(Session))
  /\ lastOp' = "reset"
  /\ prevCursor' = cursorIndex
  /\ heard' = <<>>
  /\ nFinal' = 0
  /\ UNCHANGED outsideVars

Next == SetScript \/ FinalSpeech \/ InterimSpeech \/ JumpTo \/ Reset

Spec == Init /\ [][Next]_vars

(***************************************************************************)
(* The scenarios of a read-through: a script is loaded, final updates      *)
(* arrive one after the other, and the session may be reset.               *)
(***************************************************************************)
\* "the quick brown fox jumps over the lazy dog": nine tokens
ScriptFox == <<"t","h","e"," ","q","u","i","c","k"," ","b","r","o","w","n",
               " ","f","o","x"," ","j","u","m","p","s"," ","o","v","e","r",
               " ","t","h","e"," ","l","a","z","y"," ","d","o","g">>
\* "we took their dog home": "their" is token 2
ScriptTheir == <<"w","e"," ","t","o","o","k"," ","t","h","e","i","r"," ",
                 "d","o","g"," ","h","o","m","e">>
ScenarioScripts == {ScriptFox, ScriptTheir}

\* "the quick brown"
SayTheQuickBrown == <<"t","h","e"," ","q","u","i","c","k"," ","b","r","o",
                      "w","n">>
\* "fox jumps over"
SayFoxJumpsOver == <<"f","o","x"," ","j","u","m","p","s"," ","o","v","e",
                     "r">>
\* "the lazy dog"
SayTheLazyDog == <<"t","h","e"," ","l","a","z","y"," ","d","o","g">>
\* "we took": the two words before "their"
SayWeTook == <<"w","e"," ","t","o","o","k">>
\* "they took": the same with "we" misheard
SayTheyTook == <<"t","h","e","y"," ","t","o","o","k">>
\* "there": "their" misheard
SayThere == <<"t","h","e","r","e">>
ScenarioFinals == {SayTheQuickBrown, SayFoxJumpsOver, SayTheLazyDog,
                   SayWeTook, SayTheyTook, SayThere}

LoadScenario ==
  \E text \in ScenarioScripts :
    /\ Becomes(setScript(Session, text))
    /\ lastOp' = "setScript"
    /\ prevCursor' = cursorIndex
    /\ heard' = <<>>
    /\ nFinal' = 0
    /\ UNCHANGED outsideVars

ScenarioFinal ==
  \E t \in ScenarioFinals :
    /\ ~IsNoOp(Session, t)
    /\ nFinal < MaxFinals
    /\ Becomes(processSpeech(Session, t, TRUE))
    /\ lastOp' = "final"
    /\ prevCursor' = cursorIndex
    /\ nFinal' = nFinal + 1
    /\ heard' = heard \o TranscriptWords(t)
    /\ UNCHANGED outsideVars

ScenarioNext == LoadScenario \/ ScenarioFinal \/ Reset

SpecScenario == Init /\ [][ScenarioNext]_vars

(***************************************************************************)
(* A script longer than the search window, driven as the page drives it.   *)
(***************************************************************************)
\* eighteen tokens: "ab cd", twelve "xx", then "ij kl" (tokens 14, 15) and
\* "mn op" (tokens 16, 17)
ScriptLong == <<"a","b"," ","c","d"," ","x","x"," ","x","x"," ","x","x",
                " ","x","x"," ","x","x"," ","x","x"," ","x","x"," ","x",
                "x"," ","x","x"," ","x","x"," ","x","x"," ","x","x"," ",
                "i","j"," ","k","l"," ","m","n"," ","o","p">>
\* "ij kl"
SayIjKl == <<"i","j"," ","k","l">>
\* "mn op"
SayMnOp == <<"m","n"," ","o","p">>
WindowFinals == {SayAbCd, SayIjKl, SayMnOp}
\* ", mn": a word of punctuation alone, then the word before the last one
SayCommaMn == <<",", " ", "m", "n">>
WindowInterims == {SayIjKl, SayCommaMn}

LoadLong ==
  /\ Becomes(setScript(Session, ScriptLong))
  /\ lastOp' = "setScript"
  /\ prevCursor' = cursorIndex
  /\ heard' = <<>>
  /\ nFinal' = 0
  /\ UNCHANGED outsideVars

WindowFinal ==
  \E t \in WindowFinals :
    /\ ~IsNoOp(Session, t)
    /\ nFinal < MaxFinals
    /\ Becomes(processSpeech(Session, t, TRUE))
    /\ lastOp' = "final"
    /\ prevCursor' = cursorIndex
    /\ nFinal' = nFinal + 1
    /\ heard' = heard \o TranscriptWords(t)
    /\ UNCHANGED outsideVars

WindowInterim ==
  \E t \in WindowInterims :
    /\ ~IsNoOp(Session, t)
    /\ Becomes(processSpeech(Session, t, FALSE))
    /\ lastOp' = "interim"
    /\ prevCursor' = cursorIndex
    /\ UNCHANGED <<heard, nFinal>>
    /\ UNCHANGED outsideVars

WindowNext == LoadLong \/ WindowFinal \/ WindowInterim \/ JumpTo \/ Reset

SpecWindow == Init /\ [][WindowNext]_vars

(***************************************************************************)
(* The functions of the file called on their own, outside any session:     *)
(* the arguments are drawn at the start, and each step calls one function  *)
(* on them and keeps what it returned.                                     *)
(***************************************************************************)
\* longest word given to levenshtein and wordSimilarity
MaxWordLen == 3
\* longest text given to normalize and tokenize
MaxTextLen == 4

WordChars == {"a", "b", "c"}
Words == UNION {[1..n -> WordChars] : n \in 0..MaxWordLen}

\* a lower-case letter, a capital, a digit, the apostrophe, punctuation and
\* two kinds of whitespace
TextChars == {"a", "B", "7", "'", ",", " ", "\n"}
Texts == UNION {[1..n -> TextChars] : n \in 0..MaxTextLen}

InitCalls ==
  /\ tokens = InitSession.tokens
  /\ cursorIndex = InitSession.cursorIndex
  /\ isComplete = InitSession.isComplete
  /\ tokensRef = InitSession.tokensRef
  /\ spokenBufferRef = InitSession.spokenBufferRef
  /\ interimWordsRef = InitSession.interimWordsRef
  /\ lastOp = "init"
  /\ prevCursor = -1
  /\ heard = <<>>
  /\ nFinal = 0
  /\ called = "none"
  /\ returned = <<>>
  /\ \/ argA \in Words /\ argB \in Words
     \/ argA \in Texts /\ argB = <<>>
  /\ NoPage
  /\ NoBatch

CallNormalize ==
  /\ argB = <<>>
  /\ called' = "normalize"
  /\ returned' = normalize(argA)
  /\ UNCHANGED <<argA, argB, sessionVars, lastOp, prevCursor, heard, nFinal,
               pageVars, batchVars>>

CallTokenize ==
  /\ argB = <<>>
  /\ called' = "tokenize"
  /\ returned' = tokenize(argA)
  /\ UNCHANGED <<argA, argB, sessionVars, lastOp, prevCursor, heard, nFinal,
               pageVars, batchVars>>

CallLevenshtein ==
  /\ argA \in Words /\ argB \in Words
  /\ called' = "levenshtein"
  /\ returned' = levenshtein(argA, argB)
  /\ UNCHANGED <<argA, argB, sessionVars, lastOp, prevCursor, heard, nFinal,
               pageVars, batchVars>>

CallWordSimilarity ==
  /\ argA \in Words /\ argB \in Words
  /\ called' = "wordSimilarity"
  /\ returned' = wordSimilarity(argA, argB)
  /\ UNCHANGED <<argA, argB, sessionVars, lastOp, prevCursor, heard, nFinal,
               pageVars, batchVars>>

CallsNext ==
  CallNormalize \/ CallTokenize \/ CallLevenshtein \/ CallWordSimilarity

SpecCalls == InitCalls /\ [][CallsNext]_vars

(***************************************************************************)
(* A speaker who reads the script as it is written: every final result     *)
(* carries the next words of the script, in order.                         *)
(***************************************************************************)
\* most script words in one final result
MaxChunk == 3

\* "ab cd ef gh ij kl": six different words
ScriptPlain == <<"a","b"," ","c","d"," ","e","f"," ","g","h"," ","i","j",
                 " ","k","l">>
\* "ab cd ab cd ab cd": a phrase said three times
ScriptRefrain == <<"a","b"," ","c","d"," ","a","b"," ","c","d"," ","a","b",
                   " ","c","d">>
\* "ab ab ab ab": one word said four times
ScriptEcho == <<"a","b"," ","a","b"," ","a","b"," ","a","b">>
\* "ab cd ef gh ab cd ef gh": a line of four words said twice
ScriptChorus == <<"a","b"," ","c","d"," ","e","f"," ","g","h"," ",
                  "a","b"," ","c","d"," ","e","f"," ","g","h">>
ReadingScripts == {ScriptPlain, ScriptRefrain, ScriptEcho, ScriptChorus}

\* words.join(" ")
RECURSIVE join(_)
join(words) ==
  IF Len(words) = 0 THEN <<>>
  ELSE IF Len(words) = 1 THEN words[1]
  ELSE words[1] \o <<" ">> \o join(Tail(words))

\* the k script words that follow the n words read so far
NextWords(n, k) == [i \in 1..k |-> tokens[n + i].normalized]

LoadReading ==
  \E text \in ReadingScripts :
    /\ Becomes(setScript(Session, text))
    /\ lastOp' = "setScript"
    /\ prevCursor' = cursorIndex
    /\ heard' = <<>>
    /\ nFinal' = 0
    /\ UNCHANGED outsideVars

\* the recognizer delivers the next k words as one final result
ReadOn ==
  \E k \in 1..MaxChunk :
    /\ Len(heard) + k <= Len(tokens)
    /\ Becomes(processSpeech(Session, join(NextWords(Len(heard), k)), TRUE))
    /\ lastOp' = "final"
    /\ prevCursor' = cursorIndex
    /\ heard' = heard \o NextWords(Len(heard), k)
    /\ nFinal' = nFinal + 1
    /\ UNCHANGED outsideVars

ReadingNext == LoadReading \/ ReadOn

SpecReading == Init /\ [][ReadingNext]_vars

(***************************************************************************)
(* The page: TeleprompterPage with useSpeechRecognition and the tracker.   *)
(* Every handler runs to its end, React renders, and the effects of that   *)
(* render run, before the next event is handled.  The browser supports     *)
(* speech recognition; the microphone permission is granted or refused.    *)
(***************************************************************************)
PageScripts == {ScriptMain, ScriptOne, ScriptBlank}
PageFinals == {SayAbCd, SayZz}
PageInterims == {SayGi}

\* recognitionRef.current.stop(): a started recognizer stops, and may still
\* deliver the final result of what it heard
Stopped(rec) == IF rec = "started" THEN "stopped" ELSE rec

\* useEffect(() => { if (tracker.isComplete && speech.status === "listening")
\* speech.stop(); }, [tracker.isComplete]): it runs after a render in which
\* isComplete differs from the render before
AutoStop(completeBefore, completeAfter) ==
  IF completeAfter # completeBefore /\ completeAfter /\ status = "listening"
    THEN /\ status' = "idle"
         /\ recognition' = Stopped(recognition)
    ELSE UNCHANGED <<status, recognition>>

\* a variant of handlePlay that leaves setScript to an effect that runs
\* after recognition has started
HandlePlayNoScript ==
  \E granted \in BOOLEAN :
    /\ mode = "edit"
    /\ mode' = "present"
    /\ IF granted
         THEN status' = "listening" /\ recognition' = "started"
         ELSE status' = "idle" /\ UNCHANGED recognition
    /\ speechError' = "null"
    /\ lastOp' = "play"
    /\ prevCursor' = cursorIndex
    /\ heard' = <<>>
    /\ nFinal' = 0
    /\ UNCHANGED <<sessionVars, scriptText, hookVars, callVars, batchVars>>

\* handlePlay: setSpeechError(null), setScript(scriptText),
\* setMode("present"), speech.start()
HandlePlay ==
  \E granted \in BOOLEAN :
    /\ mode = "edit"
    /\ Becomes(setScript(Session, scriptText))
    /\ speechError' = "null"
    /\ mode' = "present"
    /\ IF granted
         THEN status' = "listening" /\ recognition' = "started"
         ELSE status' = "idle" /\ UNCHANGED recognition
    /\ lastOp' = "play"
    /\ prevCursor' = cursorIndex
    /\ heard' = <<>>
    /\ nFinal' = 0
    /\ UNCHANGED <<scriptText, hookVars, callVars, batchVars>>

\* handleStop: speech.stop(), setMode("edit"), tracker.reset()
HandleStop ==
  /\ mode = "present"
  /\ status' = "idle"
  /\ recognition' = Stopped(recognition)
  /\ mode' = "edit"
  /\ Becomes(reset(Session))
  /\ lastOp' = "stop"
  /\ prevCursor' = cursorIndex
  /\ heard' = <<>>
  /\ nFinal' = 0
  /\ UNCHANGED <<scriptText, speechError, hookVars, callVars, batchVars>>

\* a variant of handlePauseResume whose resume resets the tracker, as
\* handleStop does
HandlePauseResumeReload ==
  /\ mode = "present"
  /\ \/ /\ status = "listening"
        /\ status' = "paused"
        /\ recognition' = Stopped(recognition)
        /\ lastOp' = "pause"
        /\ UNCHANGED <<sessionVars, heard, nFinal>>
     \/ /\ status = "paused"
        /\ status' = "listening"
        /\ recognition' = "started"
        /\ lastOp' = "resume"
        /\ Becomes(reset(Session))
        /\ heard' = <<>>
        /\ nFinal' = 0
  /\ prevCursor' = cursorIndex
  /\ UNCHANGED <<mode, scriptText, speechError, hookVars, callVars, batchVars>>

\* handlePauseResume: speech.pause() when listening, speech.resume() when
\* paused; resume goes back to "paused" when the microphone is refused
HandlePauseResume ==
  /\ mode = "present"
  /\ \/ /\ status = "listening"
        /\ status' = "paused"
        /\ recognition' = Stopped(recognition)
        /\ lastOp' = "pause"
     \/ /\ status = "paused"
        /\ \E granted \in BOOLEAN :
             IF granted
               THEN /\ status' = "listening"
                    /\ recognition' = "started"
                    /\ lastOp' = "resume"
               ELSE /\ status' = "paused"
                    /\ UNCHANGED recognition
                    /\ lastOp' = "resumeRefused"
  /\ prevCursor' = cursorIndex
  /\ UNCHANGED <<sessionVars, heard, nFinal, mode, scriptText, speechError,
                 hookVars, callVars, batchVars>>

\* rec.onresult with a final result: onFinalResult -> handleFinal ->
\* processSpeech(t, true), then the auto-stop effect
OnResultFinal ==
  \E t \in PageFinals :
    /\ recognition \in {"started", "stopped"}
    /\ Becomes(processSpeech(Session, t, TRUE))
    /\ AutoStop(isComplete, processSpeech(Session, t, TRUE).isComplete)
    /\ lastOp' = IF IsNoOp(Session, t) THEN "finalNoOp" ELSE "final"
    /\ prevCursor' = cursorIndex
    /\ IF IsNoOp(Session, t)
         THEN UNCHANGED <<heard, nFinal>>
         ELSE /\ nFinal < MaxFinals
              /\ nFinal' = nFinal + 1
              /\ heard' = heard \o TranscriptWords(t)
    /\ UNCHANGED <<mode, scriptText, speechError, hookVars, callVars, batchVars>>

\* rec.onresult with an interim result: onInterimResult -> handleInterim ->
\* processSpeech(t, false)
OnResultInterim ==
  \E t \in PageInterims :
    /\ recognition = "started"
    /\ Becomes(processSpeech(Session, t, FALSE))
    /\ AutoStop(isComplete, processSpeech(Session, t, FALSE).isComplete)
    /\ lastOp' = IF IsNoOp(Session, t) THEN "interimNoOp" ELSE "interim"
    /\ prevCursor' = cursorIndex
    /\ UNCHANGED <<heard, nFinal, mode, scriptText, speechError, hookVars,
                   callVars, batchVars>>

\* rec.onend, and the restart timer it sets while the status is "listening"
OnEnd ==
  /\ recognition \in {"started", "stopped"}
  /\ recognition' = IF status = "listening" THEN "started" ELSE "none"
  /\ lastOp' = "end"
  /\ prevCursor' = cursorIndex
  /\ UNCHANGED <<sessionVars, heard, nFinal, status, mode, scriptText,
                 speechError, hookVars, callVars, batchVars>>

\* onClick={() => tracker.jumpTo(i)} on a word of the script, which is
\* rendered in present mode while the script is not complete
TapWord ==
  \E i \in 0..(Len(tokens) - 1) :
    /\ mode = "present"
    /\ ~isComplete
    /\ Becomes(jumpTo(Session, i))
    /\ lastOp' = "jumpTo"
    /\ prevCursor' = cursorIndex
    /\ heard' = <<>>
    /\ nFinal' = 0
    /\ UNCHANGED <<pageVars, callVars, batchVars>>

\* onChange={(e) => setScriptText(e.target.value)} on the textarea, which
\* is rendered in edit mode; the re-tokenize effect that follows calls
\* setScript in present mode only
EditScript ==
  \E text \in PageScripts :
    /\ mode = "edit"
    /\ text # scriptText
    /\ scriptText' = text
    /\ lastOp' = "edit"
    /\ prevCursor' = cursorIndex
    /\ UNCHANGED <<sessionVars, heard, nFinal, status, mode, recognition,
                   speechError, hookVars, callVars, batchVars>>

PageNext ==
  \/ EditScript
  \/ HandlePlay
  \/ HandleStop
  \/ HandlePauseResume
  \/ OnResultFinal
  \/ OnResultInterim
  \/ OnEnd
  \/ TapWord

SpecPage == Init /\ [][PageNext]_vars

(***************************************************************************)
(* The tracker under React's batching.  A handler writes the refs at once  *)
(* and queues its state updates; a later render applies the queue: the     *)
(* queue of cursorIndex first, running every updater function then, the    *)
(* queue of isComplete after it.  setIsComplete(true), called from inside  *)
(* a cursor updater, joins the queue of isComplete while the render is     *)
(* under way, behind what the handlers queued.  shadow is the session that *)
(* the same calls give when each is applied before the next one is made.   *)
(***************************************************************************)
\* most calls whose state updates wait for the next render
MaxPending == 2

BatchScripts == {ScriptLong, ScriptOne}
BatchFinals == {SayIjKl, SayMnOp}
BatchInterims == {SayIjKl}

\* what a call has queued: the call, the tokens its updater closed over,
\* the combined words an interim updater closed over, the index of a jump
Queued(op, currentTokens, combined, index) ==
  [op |-> op, currentTokens |-> currentTokens, combined |-> combined,
   index |-> index]

\* what the cursor updater of a final or interim call searches with: the
\* final updater reads spokenBufferRef.current when it runs
SearchOf(u, prev, bufferNow) ==
  advanceCursor(IF u.op = "final" THEN bufferNow ELSE u.combined,
                u.currentTokens, Max(0, prev))

\* the render: the queues applied to tokens, cursorIndex and isComplete
RECURSIVE ApplyQueue(_, _, _)
ApplyQueue(queue, state, bufferNow) ==
  IF Len(queue) = 0 THEN state
  ELSE LET u == Head(queue)
           prev == state.cursorIndex
           newCursor == SearchOf(u, prev, bufferNow)
           next ==
             [tokens |-> IF u.op = "setScript" THEN u.currentTokens
                         ELSE state.tokens,
              cursorIndex |->
                IF u.op \in {"final", "interim"}
                  THEN CommitCursor(newCursor, prev)
                ELSE IF u.op = "jumpTo" THEN u.index
                ELSE -1,
              queuedFalse |->
                state.queuedFalse \/ u.op \in {"setScript", "jumpTo", "reset"},
              calledTrue |->
                \/ state.calledTrue
                \/ u.op = "final" /\ ReachesEnd(newCursor, u.currentTokens)]
       IN  ApplyQueue(Tail(queue), next, bufferNow)

Rendered ==
  ApplyQueue(pending,
             [tokens |-> tokens, cursorIndex |-> cursorIndex,
              queuedFalse |-> FALSE, calledTrue |-> FALSE],
             spokenBufferRef)

Render ==
  LET rendered == Rendered
  IN  /\ pending # <<>>
      /\ tokens' = rendered.tokens
      /\ cursorIndex' = rendered.cursorIndex
      /\ isComplete' = IF rendered.calledTrue THEN TRUE
                       ELSE IF rendered.queuedFalse THEN FALSE
                       ELSE isComplete
      /\ pending' = <<>>
      /\ lastOp' = "render"
      /\ prevCursor' = cursorIndex
      /\ UNCHANGED <<tokensRef, spokenBufferRef, interimWordsRef, shadow,
                     heard, nFinal, callVars, pageVars>>

QueueSetScript ==
  \E text \in BatchScripts :
    /\ Len(pending) < MaxPending
    /\ tokensRef' = tokenize(text)
    /\ spokenBufferRef' = <<>>
    /\ interimWordsRef' = <<>>
    /\ pending' = Append(pending, Queued("setScript", tokenize(text), <<>>, -1))
    /\ shadow' = setScript(shadow, text)
    /\ lastOp' = "setScript"
    /\ heard' = <<>>
    /\ nFinal' = 0
    /\ UNCHANGED <<tokens, cursorIndex, isComplete, prevCursor,
                   callVars, pageVars>>

QueueFinal ==
  \E t \in BatchFinals :
    /\ Len(pending) < MaxPending
    /\ ~IsNoOp(Session, t)
    /\ nFinal < MaxFinals
    /\ interimWordsRef' = <<>>
    /\ spokenBufferRef' = PushWords(spokenBufferRef, TranscriptWords(t))
    /\ pending' = Append(pending, Queued("final", tokensRef, <<>>, -1))
    /\ shadow' = processSpeech(shadow, t, TRUE)
    /\ lastOp' = "final"
    /\ heard' = heard \o TranscriptWords(t)
    /\ nFinal' = nFinal + 1
    /\ UNCHANGED <<tokens, cursorIndex, isComplete, tokensRef, prevCursor,
                   callVars, pageVars>>

QueueInterim ==
  \E t \in BatchInterims :
    /\ Len(pending) < MaxPending
    /\ ~IsNoOp(Session, t)
    /\ interimWordsRef' = TranscriptWords(t)
    /\ pending' =
         Append(pending,
                Queued("interim", tokensRef,
                       SliceLast(spokenBufferRef \o TranscriptWords(t),
                                 BufferCap), -1))
    /\ shadow' = processSpeech(shadow, t, FALSE)
    /\ lastOp' = "interim"
    /\ UNCHANGED <<tokens, cursorIndex, isComplete, tokensRef,
                   spokenBufferRef, prevCursor, heard, nFinal,
                   callVars, pageVars>>

\* a tap on the first or on the last word that is rendered
QueueJumpTo ==
  \E i \in {0, Len(tokens) - 1} :
    /\ Len(pending) < MaxPending
    /\ Len(tokens) > 0
    /\ spokenBufferRef' = <<>>
    /\ interimWordsRef' = <<>>
    /\ pending' = Append(pending, Queued("jumpTo", <<>>, <<>>, i))
    /\ shadow' = jumpTo(shadow, i)
    /\ lastOp' = "jumpTo"
    /\ heard' = <<>>
    /\ nFinal' = 0
    /\ UNCHANGED <<tokens, cursorIndex, isComplete, tokensRef, prevCursor,
                   callVars, pageVars>>

QueueReset ==
  /\ Len(pending) < MaxPending
  /\ spokenBufferRef' = <<>>
  /\ interimWordsRef' = <<>>
  /\ pending' = Append(pending, Queued("reset", <<>>, <<>>, -1))
  /\ shadow' = reset(shadow)
  /\ lastOp' = "reset"
  /\ heard' = <<>>
  /\ nFinal' = 0
  /\ UNCHANGED <<tokens, cursorIndex, isComplete, tokensRef, prevCursor,
                 callVars, pageVars>>

BatchNext ==
  \/ QueueSetScript
  \/ QueueFinal
  \/ QueueInterim
  \/ QueueJumpTo
  \/ QueueReset
  \/ Render

SpecBatch == Init /\ [][BatchNext]_vars

(***************************************************************************)
(* advanceCursor called on its own: argA is spokenWords, argB is the pair  *)
(* of tokens and cursorStart.                                              *)
(***************************************************************************)
\* most spoken words given to advanceCursor
MaxSpokenLen == 4

\* words that are alike to different degrees, one of one letter, and one
\* that normalize empties
SpokenWords == {<<"a">>, <<"a","b">>, <<"a","b","c">>, <<",">>}
SpokenLists == UNION {[1..n -> SpokenWords] : n \in 0..MaxSpokenLen}

\* "ab a abc ab ab a abc abc ab a a ab abc ab abc a ab abc": eighteen tokens
SearchScriptLong ==
  <<"a","b"," ","a"," ","a","b","c"," ","a","b"," ","a","b"," ","a"," ",
    "a","b","c"," ","a","b","c"," ","a","b"," ","a"," ","a"," ","a","b"," ",
    "a","b","c"," ","a","b"," ","a","b","c"," ","a"," ","a","b"," ",
    "a","b","c">>
\* "", "ab", "abc a ab", "Ab , ab abc" and the long one
SearchScripts ==
  {<<>>, <<"a","b">>, <<"a","b","c"," ","a"," ","a","b">>,
   <<"A","b"," ",","," ","a","b"," ","a","b","c">>, SearchScriptLong}
\* a script and a place to start from, up to one past its last token
SearchPlaces ==
  UNION {{<<tokenize(text), c>> : c \in 0..Len(tokenize(text))} :
           text \in SearchScripts}

InitSearch ==
  /\ tokens = InitSession.tokens
  /\ cursorIndex = InitSession.cursorIndex
  /\ isComplete = InitSession.isComplete
  /\ tokensRef = InitSession.tokensRef
  /\ spokenBufferRef = InitSession.spokenBufferRef
  /\ interimWordsRef = InitSession.interimWordsRef
  /\ lastOp = "init"
  /\ prevCursor = -1
  /\ heard = <<>>
  /\ nFinal = 0
  /\ called = "none"
  /\ returned = <<>>
  /\ argA \in SpokenLists
  /\ argB \in SearchPlaces
  /\ NoPage
  /\ NoBatch

CallAdvanceCursor ==
  /\ called = "none"
  /\ called' = "advanceCursor"
  /\ returned' = advanceCursor(argA, argB[1], argB[2])
  /\ UNCHANGED <<argA, argB, sessionVars, lastOp, prevCursor, heard, nFinal,
               pageVars, batchVars>>

SpecSearch == InitSearch /\ [][CallAdvanceCursor]_vars

(***************************************************************************)
(* Properties of the tracker session.                                      *)
(***************************************************************************)
LastIndex == Len(tokens) - 1
SpeechOps == {"final", "interim", "finalNoOp", "interimNoOp"}

\* the transcript holds nothing but whitespace
HasNoWords(transcript) ==
  \A i \in 1..Len(transcript) : transcript[i] \in Whitespace

\* no offset of the window around cursorStart scores above the threshold
\* for the anchor made of spokenWords
NoConfidentOffset(spokenWords, tokens_, cursorStart) ==
  LET anchor == Anchor(spokenWords)
      windowTokens == WindowTokens(tokens_, cursorStart)
  IN  \A wi \in 0..(Len(windowTokens) - Len(anchor)) :
        ~FracGT(OffsetScore(anchor, windowTokens, wi), Threshold)

\* C1: after every processSpeech call, final or interim, the cursor is not
\* below the value it had before that call.
C1_Monotonic ==
  lastOp \in SpeechOps => cursorIndex >= prevCursor

\* a final update proposed a position behind the cursor (inside the
\* look-behind part of the window) and the cursor stayed where it was
C1_Witness ==
  /\ lastOp = "final"
  /\ prevCursor > 0
  /\ cursorIndex = prevCursor
  /\ advanceCursor(spokenBufferRef, tokensRef, prevCursor) < prevCursor

\* C2: the cursor always lies in [-1, tokens.length - 1].
C2_Bounded ==
  cursorIndex \in (-1)..LastIndex

\* a final update moved the cursor onto the last token of a longer script
C2_Witness ==
  /\ lastOp = "final"
  /\ Len(tokens) > 1
  /\ prevCursor < cursorIndex
  /\ cursorIndex = LastIndex

\* C3 as claimed: with a non-empty script, complete is true exactly when
\* the cursor is on the last token.
C3_CompleteIffLast ==
  Len(tokens) > 0 => (isComplete <=> cursorIndex = LastIndex)

\* C3 as amended: with a non-empty script, complete is true only when the
\* cursor is on the last token; a final update that moves the cursor onto
\* the last token sets complete at that step; an interim update or a jump
\* that moves the cursor leaves complete false, also onto the last token.
C3_CompleteOnlyAtLast ==
  Len(tokens) > 0 =>
    /\ isComplete => cursorIndex = LastIndex
    /\ (lastOp = "final" /\ prevCursor < cursorIndex /\ cursorIndex = LastIndex)
         => isComplete
    /\ (lastOp \in {"interim", "jumpTo"} /\ prevCursor # cursorIndex)
         => ~isComplete

\* a final update moved the cursor onto the last token and set complete
C3_Witness ==
  /\ lastOp = "final"
  /\ Len(tokens) > 1
  /\ prevCursor < cursorIndex
  /\ cursorIndex = LastIndex
  /\ isComplete

\* C4 as claimed: a final update whose anchor scores at or below the
\* threshold at every offset of the window leaves the cursor unchanged and
\* does not set complete, from any cursor value.
C4_NoMatchNoChange ==
  [][(/\ lastOp' = "final"
      /\ NoConfidentOffset(spokenBufferRef', tokensRef, Max(0, cursorIndex)))
     => (cursorIndex' = cursorIndex /\ isComplete' = isComplete)]_vars

\* what C5 compares: cursor, spokenHistory and complete
Outcome(s) == <<s.cursorIndex, s.spokenBufferRef, s.isComplete>>

C6_RollingBuffer ==
  /\ Len(spokenBufferRef) <= 20
  /\ spokenBufferRef = SliceLast(heard, 20)

\* more than 20 words have arrived in final updates since the last clear
C6_Witness ==
  /\ lastOp = "final"
  /\ Len(heard) > 20
  /\ Len(spokenBufferRef) = 20

\* C7 as claimed: interimWords is empty right after every final
\* processSpeech call, every jumpTo and every reset, and right after an
\* interim call it holds the words of that call's transcript.
C7_InterimWordsAfterEveryCall ==
  [][/\ lastOp' \in {"final", "finalNoOp", "jumpTo", "reset"}
          => interimWordsRef' = <<>>
     /\ \A t \in InterimTranscripts :
          (/\ lastOp' \in {"interim", "interimNoOp"}
           /\ Becomes(processSpeech(Session, t, FALSE)))
          => interimWordsRef' = TranscriptWords(t)]_vars

\* C7 as amended: interimWords is empty right after every jumpTo, every
\* reset and every final processSpeech call made with a script loaded and
\* a transcript that has words; right after an interim call made with a
\* script loaded and a transcript that has words it holds the words of
\* that call's transcript, and no others.
C7_InterimWordsAfterEffectiveCall ==
  [][/\ lastOp' \in {"jumpTo", "reset"} => interimWordsRef' = <<>>
     /\ \A t \in FinalTranscripts :
          (/\ lastOp' \in {"final", "finalNoOp"}
           /\ Len(tokensRef) > 0 /\ ~HasNoWords(t)
           /\ Becomes(processSpeech(Session, t, TRUE)))
          => interimWordsRef' = <<>>
     /\ \A t \in InterimTranscripts :
          (/\ lastOp' \in {"interim", "interimNoOp"}
           /\ Len(tokensRef) > 0 /\ ~HasNoWords(t)
           /\ Becomes(processSpeech(Session, t, FALSE)))
          => interimWordsRef' = TranscriptWords(t)]_vars

\* a final update has just taken effect after words were spoken, and the
\* interim words are gone
C7_Witness ==
  /\ lastOp = "final"
  /\ nFinal >= 2
  /\ interimWordsRef = <<>>

\* C8: a processSpeech call, final or interim, made while no script is
\* loaded or with a transcript that holds only whitespace changes no field
\* of the session.
C8_GuardsChangeNothing ==
  [][\A t \in FinalTranscripts \cup InterimTranscripts : \A f \in BOOLEAN :
       (/\ lastOp' \in SpeechOps
        /\ (Len(tokens) = 0 \/ HasNoWords(t))
        /\ Becomes(processSpeech(Session, t, f)))
       => UNCHANGED sessionVars]_vars

\* a final call with a blank transcript has just returned at its guard in
\* a session that has a script, a moved cursor and pending interim words
C8_Witness ==
  /\ lastOp = "finalNoOp"
  /\ Len(tokens) > 0
  /\ cursorIndex > 0
  /\ interimWordsRef # <<>>

\* C9: from every session state, setScript(text) yields the state that
\* setScript(text) yields from the initial state: tokens = tokenize(text),
\* cursor -1, complete false, both buffers empty; and setScript(text)
\* applied twice yields the same state as applied once.
C9_SetScriptDependsOnTextOnly ==
  \A text \in Scripts :
    LET once == setScript(Session, text)
    IN  /\ once = setScript(InitSession, text)
        /\ once.tokens = tokenize(text)
        /\ once.tokensRef = tokenize(text)
        /\ once.cursorIndex = -1
        /\ once.isComplete = FALSE
        /\ once.spokenBufferRef = <<>>
        /\ once.interimWordsRef = <<>>
        /\ setScript(once, text) = once

\* setScript has just replaced a session that had been completed
C9_Witness ==
  /\ lastOp = "setScript"
  /\ prevCursor > 0
  /\ Len(tokens) > 0
  /\ cursorIndex = -1

\* C10: from every session state, jumpTo(index) sets the cursor to index,
\* also when index is below the cursor, sets complete to false, empties
\* both buffers and leaves the tokens alone.
C10_JumpToSetsCursor ==
  /\ \A i \in 0..LastIndex :
       jumpTo(Session, i) =
         [tokens |-> tokens, cursorIndex |-> i, isComplete |-> FALSE,
          tokensRef |-> tokensRef, spokenBufferRef |-> <<>>,
          interimWordsRef |-> <<>>]
  /\ lastOp = "jumpTo" =>
       /\ cursorIndex \in 0..LastIndex
       /\ ~isComplete
       /\ spokenBufferRef = <<>>
       /\ interimWordsRef = <<>>

\* a jump has just moved the cursor backwards
C10_Witness ==
  /\ lastOp = "jumpTo"
  /\ cursorIndex < prevCursor

\* the session that has the tokens of the current one and nothing else:
\* every session with these tokens differs from it only in cursor,
\* spoken history, interim words and complete
Unstarted ==
  [tokens |-> tokens, cursorIndex |-> -1, isComplete |-> FALSE,
   tokensRef |-> tokensRef, spokenBufferRef |-> <<>>,
   interimWordsRef |-> <<>>]

\* the processSpeech calls of the model: a transcript and its isFinal flag
SpeechCalls ==
  (FinalTranscripts \X {TRUE}) \cup (InterimTranscripts \X {FALSE})

\* C11: from every session state, jumpTo(i) yields the session that
\* jumpTo(i) yields from the unstarted session with the same tokens, so two
\* sessions with the same tokens agree after jumpTo(i) and any further
\* call; and right after a jump to i, a processSpeech call with words
\* leaves the cursor at the larger of i and the position the search finds
\* for the words of that call alone in the window around i, and sets
\* complete exactly when the call is final and that position is the last
\* token or beyond.
C11_JumpOverridesHistory ==
  /\ \A i \in 0..LastIndex : jumpTo(Session, i) = jumpTo(Unstarted, i)
  /\ lastOp = "jumpTo" =>
       \A c \in SpeechCalls :
         LET after == processSpeech(Session, c[1], c[2])
             found == advanceCursor(filterBoolean(split(trim(c[1]))),
                                    tokens, cursorIndex)
         IN  ~HasNoWords(c[1]) =>
               /\ after.cursorIndex = Max(cursorIndex, found)
               /\ after.isComplete = (c[2] /\ found >= LastIndex)

\* a jump has just moved the cursor backwards, and a final update would
\* now advance it from there
C11_Witness ==
  /\ lastOp = "jumpTo"
  /\ 0 < cursorIndex /\ cursorIndex < prevCursor
  /\ \E t \in FinalTranscripts :
       processSpeech(Session, t, TRUE).cursorIndex > cursorIndex

\* C12: from every session state, reset() sets the cursor to -1 and
\* complete to false, empties the spoken buffer and the interim words, and
\* leaves the tokens unchanged.
C12_ResetClearsProgress ==
  /\ reset(Session) = Unstarted
  /\ lastOp = "reset" =>
       /\ cursorIndex = -1
       /\ ~isComplete
       /\ spokenBufferRef = <<>>
       /\ interimWordsRef = <<>>

\* reset has just run on a session whose cursor was on the last token of
\* a script of several tokens, which is still loaded
C12_Witness ==
  /\ lastOp = "reset"
  /\ Len(tokens) > 1
  /\ prevCursor = LastIndex

\* C13: an operation other than setScript (a final or interim
\* processSpeech call, jumpTo, reset) leaves tokens, and the ref that
\* mirrors them, unchanged.
C13_TokensChangeOnlyBySetScript ==
  [][lastOp' # "setScript" => (tokens' = tokens /\ tokensRef' = tokensRef)]_vars

\* an interim update has just moved the cursor onto the last token of the
\* six-token script, whose tokens are all still there
C13_Witness ==
  /\ lastOp = "interim"
  /\ prevCursor < cursorIndex
  /\ cursorIndex = LastIndex
  /\ tokens = tokenize(ScriptMain)

\* C14: an interim processSpeech call leaves the spoken buffer as it was,
\* and when it has words and a script is loaded it leaves the cursor at the
\* larger of its old value and the position the search finds for the
\* spoken buffer followed by the interim words.
C14_InterimKeepsHistory ==
  [][/\ lastOp' \in {"interim", "interimNoOp"}
          => spokenBufferRef' = spokenBufferRef
     /\ \A t \in InterimTranscripts :
          (/\ lastOp' = "interim"
           /\ ~HasNoWords(t)
           /\ Becomes(processSpeech(Session, t, FALSE)))
          => cursorIndex' =
               Max(cursorIndex,
                   advanceCursor(spokenBufferRef \o filterBoolean(split(trim(t))),
                                 tokensRef, Max(0, cursorIndex)))]_vars

\* an interim update has just run on a non-empty spoken buffer, and the
\* search would have found another position for the interim words alone
C14_Witness ==
  /\ lastOp = "interim"
  /\ spokenBufferRef # <<>>
  /\ advanceCursor(spokenBufferRef \o interimWordsRef, tokensRef,
                   Max(0, prevCursor))
       # advanceCursor(interimWordsRef, tokensRef, Max(0, prevCursor))

\* C15: with "the quick brown fox jumps over the lazy dog" loaded and the
\* cursor at -1, the final update "the quick brown" leaves the cursor at 2
\* and complete false; from there the final update "fox jumps over" leaves
\* the cursor at 5 and complete false; from there the final update "the
\* lazy dog" leaves the cursor at 8 and complete true.
C15_ExactMatchScenario ==
  [][/\ (/\ lastOp' = "final"
         /\ tokens = tokenize(ScriptFox)
         /\ cursorIndex = -1 /\ ~isComplete
         /\ spokenBufferRef = <<>>
         /\ Becomes(processSpeech(Session, SayTheQuickBrown, TRUE)))
        => (cursorIndex' = 2 /\ ~isComplete')
     /\ (/\ lastOp' = "final"
         /\ tokens = tokenize(ScriptFox)
         /\ cursorIndex = 2 /\ ~isComplete
         /\ spokenBufferRef = split(SayTheQuickBrown)
         /\ Becomes(processSpeech(Session, SayFoxJumpsOver, TRUE)))
        => (cursorIndex' = 5 /\ ~isComplete')
     /\ (/\ lastOp' = "final"
         /\ tokens = tokenize(ScriptFox)
         /\ cursorIndex = 5 /\ ~isComplete
         /\ spokenBufferRef = split(SayTheQuickBrown) \o split(SayFoxJumpsOver)
         /\ Becomes(processSpeech(Session, SayTheLazyDog, TRUE)))
        => (cursorIndex' = 8 /\ isComplete')]_vars

\* the third final update of the scenario has just run
C15_Witness ==
  /\ lastOp = "final"
  /\ tokens = tokenize(ScriptFox)
  /\ nFinal = 3
  /\ heard = split(SayTheQuickBrown) \o split(SayFoxJumpsOver)
               \o split(SayTheLazyDog)
  /\ prevCursor = 5
  /\ cursorIndex = 8
  /\ isComplete

\* "their", as normalize leaves it
Their == <<"t","h","e","i","r">>

\* C16: when token p of the script is "their", p lies ahead of the cursor
\* and inside the search window, and the last word of the spoken buffer is
\* the script's word just before it, the final update "there" leaves the
\* cursor on p.
C16_TolerantMatchScenario ==
  [][\A p \in 1..LastIndex :
       (/\ lastOp' = "final"
        /\ tokens[p + 1].normalized = Their
        /\ cursorIndex < p
        /\ p < Max(0, cursorIndex) + LOOKAHEAD
        /\ spokenBufferRef # <<>>
        /\ normalize(spokenBufferRef[Len(spokenBufferRef)])
             = tokens[p].normalized
        /\ Becomes(processSpeech(Session, SayThere, TRUE)))
       => cursorIndex' = p]_vars

\* "they took" and then "there" have been heard for "we took their", and
\* the final update "there" has just moved the cursor onto "their"
C16_Witness ==
  /\ lastOp = "final"
  /\ tokens = tokenize(ScriptTheir)
  /\ SliceLast(heard, 3) = split(SayTheyTook) \o split(SayThere)
  /\ prevCursor < 2
  /\ cursorIndex = 2
  /\ tokens[cursorIndex + 1].normalized = Their

(***************************************************************************)
(* Properties of the functions.                                            *)
(***************************************************************************)
\* two fractions are the same number
FracEq(x, y) == x[1] * y[2] = y[1] * x[2]

\* the edit distance by its recursive definition: the fewest insertions,
\* deletions and substitutions of one character that turn a into b
RECURSIVE EditDistance(_, _)
EditDistance(a, b) ==
  IF a = <<>> THEN Len(b)
  ELSE IF b = <<>> THEN Len(a)
  ELSE Min(EditDistance(Tail(a), Tail(b))
             + (IF Head(a) = Head(b) THEN 0 ELSE 1),
           Min(EditDistance(Tail(a), b) + 1, EditDistance(a, Tail(b)) + 1))

\* C17: wordSimilarity(w, w) is 1 for every non-empty word w, and
\* wordSimilarity(a, b) is 0 whenever a or b is empty, also when both are.
C17_SimilarityIdentity ==
  called = "wordSimilarity" =>
    /\ (argA = <<>> \/ argB = <<>>) => FracEq(returned, <<0, 1>>)
    /\ (argA # <<>> /\ argA = argB) => FracEq(returned, <<1, 1>>)

\* wordSimilarity has been called on two empty words and returned 0
C17_Witness ==
  /\ called = "wordSimilarity"
  /\ argA = <<>>
  /\ argB = <<>>
  /\ returned[1] = 0

\* C18: levenshtein(a, b) is the edit distance of a and b, and for
\* non-empty a and b wordSimilarity(a, b) is
\* 1 - editDistance(a, b) / max(len(a), len(b)), lies in [0, 1] and equals
\* wordSimilarity(b, a).
C18_SimilarityFormula ==
  /\ called = "levenshtein" => returned = EditDistance(argA, argB)
  /\ (called = "wordSimilarity" /\ argA # <<>> /\ argB # <<>>) =>
       LET maxLen == Max(Len(argA), Len(argB))
       IN  /\ FracEq(returned, <<maxLen - EditDistance(argA, argB), maxLen>>)
           /\ ~FracGT(<<0, 1>>, returned)
           /\ ~FracGT(returned, <<1, 1>>)
           /\ FracEq(returned, wordSimilarity(argB, argA))

\* wordSimilarity has been called on two words of different lengths and
\* returned a value strictly between 0 and 1
C18_Witness ==
  /\ called = "wordSimilarity"
  /\ Len(argA) = 3
  /\ Len(argB) = 2
  /\ FracGT(returned, <<0, 1>>)
  /\ FracGT(<<1, 1>>, returned)

\* the positions at which a maximal run of non-whitespace characters starts
RunStarts(text) ==
  {p \in 1..Len(text) :
     text[p] \notin Whitespace /\ (p = 1 \/ text[p - 1] \in Whitespace)}

\* the position at which the run that starts at p ends
RunEnd(text, p) ==
  CHOOSE q \in p..Len(text) :
    /\ \A r \in p..q : text[r] \notin Whitespace
    /\ q = Len(text) \/ text[q + 1] \in Whitespace

\* the start of the i-th run, counting from 1
NthRunStart(text, i) ==
  CHOOSE p \in RunStarts(text) :
    Cardinality({q \in RunStarts(text) : q < p}) = i - 1

\* C19: tokenize(text) has one token per maximal run of non-whitespace
\* characters of the text, in text order; the word of token i is the i-th
\* run, its index is i and its normalized field is normalize of its word;
\* a text without such a run yields no token.
C19_TokenizeRuns ==
  called = "tokenize" =>
    /\ Len(returned) = Cardinality(RunStarts(argA))
    /\ \A i \in 1..Len(returned) :
         /\ returned[i].word =
              SubSeq(argA, NthRunStart(argA, i),
                     RunEnd(argA, NthRunStart(argA, i)))
         /\ returned[i].index = i - 1
         /\ returned[i].normalized = normalize(returned[i].word)
    /\ HasNoWords(argA) => returned = <<>>

\* tokenize has been called on a text that starts with whitespace and
\* returned two tokens, the first with a normalized field unlike its word
C19_Witness ==
  /\ called = "tokenize"
  /\ argA # <<>> /\ argA[1] \in Whitespace
  /\ Len(returned) = 2
  /\ returned[1].normalized # returned[1].word
  /\ returned[2].index = 1

\* C20: normalize(normalize(w)) = normalize(w), and normalize(w) holds only
\* the letters a-z, the digits and the apostrophe.
C20_NormalizeIdempotent ==
  called = "normalize" =>
    /\ normalize(returned) = returned
    /\ \A i \in 1..Len(returned) :
         returned[i] \in
           {"a","b","c","d","e","f","g","h","i","j","k","l","m","n","o",
            "p","q","r","s","t","u","v","w","x","y","z",
            "0","1","2","3","4","5","6","7","8","9","'"}

\* normalize has been called on a word with a capital and a character it
\* removes, and returned the rest in lower case
C20_Witness ==
  /\ called = "normalize"
  /\ \E i \in 1..Len(argA) : argA[i] = "B"
  /\ \E i \in 1..Len(argA) : argA[i] = ","
  /\ Len(returned) = Len(argA) - 1
  /\ \E i \in 1..Len(returned) : returned[i] = "b"

(***************************************************************************)
(* Properties of the search: threshold and window.                         *)
(***************************************************************************)
\* the words the search of the processSpeech call just made ran on: the
\* spoken buffer after a final call, the spoken buffer followed by the
\* interim words after an interim call
SearchedWords ==
  IF lastOp' = "final" THEN spokenBufferRef'
                       ELSE spokenBufferRef \o interimWordsRef'

\* the processSpeech call just made moved the cursor, and not merely from
\* -1 to the start of the search, 0
MovedToMatch ==
  /\ lastOp' \in {"final", "interim"}
  /\ cursorIndex' # cursorIndex
  /\ ~(cursorIndex = -1 /\ cursorIndex' = 0)

\* the cursor now stands on the last token of an offset of the window whose
\* averaged anchor score exceeds minimum
MatchScoresAbove(minimum) ==
  LET cursorStart == Max(0, cursorIndex)
      anchor == Anchor(SearchedWords)
      windowTokens == WindowTokens(tokensRef, cursorStart)
      wi == cursorIndex' - WindowStart(cursorStart) - Len(anchor) + 1
  IN  /\ Len(anchor) > 0
      /\ wi \in 0..(Len(windowTokens) - Len(anchor))
      /\ FracGT(OffsetScore(anchor, windowTokens, wi), minimum)

C26_BoundedForwardJump ==
  [][lastOp' \in SpeechOps =>
       /\ cursorIndex' <= Max(0, cursorIndex) + LOOKAHEAD - 1
       /\ cursorIndex' <= Len(tokens) - 1]_vars

\* the final update "mn op" has just run with the cursor at -1 or 0: the
\* script has these two words at tokens 16 and 17, beyond the window, and
\* the cursor has not gone there
C26_Witness ==
  /\ lastOp = "final"
  /\ prevCursor <= 0
  /\ Len(tokens) = 18
  /\ SliceLast(heard, 2) = <<tokens[17].normalized, tokens[18].normalized>>
  /\ cursorIndex <= 0

\* the Window Search by its description: the window, the anchor, the score
\* of every offset, and the first offset with the highest score
WindowSearch(spokenWords, tokens_, c) ==
  LET windowStart == Max(0, c - 2)
      windowEnd == Min(Len(tokens_), c + 16)
      window == [i \in 1..(windowEnd - windowStart) |->
                   tokens_[windowStart + i].normalized]
      taken == Min(3, Len(spokenWords))
      lastWords == [i \in 1..taken |->
                      normalize(spokenWords[Len(spokenWords) - taken + i])]
      anchor == SelectSeq(lastWords, NonEmpty)
      n == Len(anchor)
      Pair(k, wi) ==
        IF k > n THEN <<0, 1>>
        ELSE IF Len(window[wi + k]) < 2 /\ anchor[k] # window[wi + k]
          THEN <<0, 1>>
          ELSE wordSimilarity(anchor[k], window[wi + k])
      offsets == 0..(Len(window) - n)
      score == [wi \in offsets |->
                  FracDiv(FracAdd(Pair(1, wi), FracAdd(Pair(2, wi), Pair(3, wi))),
                          n)]
      first == CHOOSE wi \in offsets :
                 \A o \in offsets :
                   /\ ~FracGT(score[o], score[wi])
                   /\ FracEq(score[o], score[wi]) => wi <= o
  IN  IF n = 0 \/ offsets = {} THEN c
      ELSE IF FracGT(score[first], <<45, 100>>)
        THEN windowStart + first + n - 1
        ELSE c

\* C25: advanceCursor(spokenWords, tokens, c) returns what the Window
\* Search returns: the last token of the first offset with the highest
\* averaged score over tokens[max(0, c - 2) .. min(len, c + 16)) when that
\* score exceeds the threshold, and c otherwise.
C25_AdvanceCursorIsWindowSearch ==
  called = "advanceCursor" => returned = WindowSearch(argA, argB[1], argB[2])

\* advanceCursor has been called with "ab" on a script that has "ab" at
\* tokens 0 and 2, from token 1, and returned the first of the two
C25_Witness ==
  /\ called = "advanceCursor"
  /\ argA = << <<"a","b">> >>
  /\ argB[2] = 1
  /\ Len(argB[1]) = 4
  /\ argB[1][1].normalized = argB[1][3].normalized
  /\ argB[1][1].normalized = <<"a","b">>
  /\ returned = 0

\* C24: a pause and a resume of recognition, granted or refused, leave
\* tokens, cursor, complete, the spoken history and the interim words as
\* they were.
C24_PauseResumeKeepsPosition ==
  [][lastOp' \in {"pause", "resume", "resumeRefused"}
       => UNCHANGED sessionVars]_vars

\* recognition has just been resumed in the middle of a script, after
\* words were heard
C24_Witness ==
  /\ lastOp = "resume"
  /\ status = "listening"
  /\ cursorIndex > 0
  /\ cursorIndex < LastIndex
  /\ spokenBufferRef # <<>>

\* C30 as claimed: in the page, after the effects of every render have run,
\* the script is never complete while the status is "listening".
C30_NeverCompleteWhileListening ==
  ~(isComplete /\ status = "listening")

\* C28: in every reachable state, complete is true only while the cursor is
\* on the last token, and complete is false right after every jumpTo,
\* reset and setScript.
C28_CompleteImpliesLast ==
  /\ isComplete => cursorIndex = Len(tokens) - 1
  /\ lastOp \in {"jumpTo", "reset", "setScript"} => ~isComplete

\* the script of several tokens is complete after two final updates
C28_Witness ==
  /\ isComplete
  /\ Len(tokens) > 1
  /\ nFinal >= 2

\* C29: while complete is true, no processSpeech call, final or interim,
\* changes the cursor or complete; a step that leaves the complete state is
\* a jumpTo, a reset or a setScript.
C29_CompleteLeftOnlyByOverride ==
  [][/\ (isComplete /\ lastOp' \in SpeechOps)
          => (cursorIndex' = cursorIndex /\ isComplete')
     /\ (isComplete /\ ~isComplete')
          => lastOp' \in {"jumpTo", "reset", "setScript"}]_vars

\* an interim update has just been made on a complete script, its words
\* match a token behind the cursor, and the cursor and complete are as
\* they were
C29_Witness ==
  /\ isComplete
  /\ lastOp = "interim"
  /\ cursorIndex = prevCursor
  /\ cursorIndex = LastIndex
  /\ advanceCursor(spokenBufferRef \o interimWordsRef, tokensRef, cursorIndex)
       < cursorIndex

\* C27 as claimed: when the words of a script whose tokens all have two
\* characters or more have been delivered in order, each final update
\* carrying one or more words, the cursor is on the last token and complete
\* is true.
C27_FollowsVerbatimReading ==
  (/\ lastOp = "final"
   /\ Len(tokens) > 0
   /\ \A i \in 1..Len(tokens) : Len(tokens[i].normalized) >= 2
   /\ heard = [i \in 1..Len(tokens) |-> tokens[i].normalized])
    => (cursorIndex = LastIndex /\ isComplete)

\* C23 as claimed: once every queued update has been applied, the cursor,
\* complete, the spoken history and the interim words are those that the
\* same calls give when each one is applied before the next is made.
C23_BatchEqualsSequence ==
  pending = <<>> =>
    /\ cursorIndex = shadow.cursorIndex
    /\ isComplete = shadow.isComplete
    /\ spokenBufferRef = shadow.spokenBufferRef
    /\ interimWordsRef = shadow.interimWordsRef

\* C31: between handlePlay on a script with at least one word and the next
\* handleStop, every recognizer result is processed against the tokens of
\* that script, never against an empty token list.
C31_TokensInPlaceAfterPlay ==
  [][(/\ lastOp' \in SpeechOps
      /\ mode = "present"
      /\ Len(tokenize(scriptText)) > 0)
     => (/\ tokensRef = tokenize(scriptText)
         /\ lastOp' \in {"final", "interim"})]_vars

\* the first result after handlePlay has arrived while listening and has
\* moved the cursor off -1
C31_Witness ==
  /\ lastOp = "final"
  /\ mode = "present"
  /\ status = "listening"
  /\ nFinal = 1
  /\ prevCursor = -1
  /\ cursorIndex >= 0

\* C32 as claimed: from handleStop to the next handlePlay, the cursor is -1
\* and complete is false, whatever the stopped recognizer still delivers.
C32_StaysResetAfterStop ==
  mode = "edit" => (cursorIndex = -1 /\ ~isComplete)

(***************************************************************************)
(* useSpeechRecognition in detail, as the page drives it.  The tracker     *)
(* takes no part here: its variables, and the summary `recognition` that   *)
(* SpecPage keeps of the recognizer, stay as they are at mount.  Every     *)
(* SpeechRecognition object that was started and has yet to fire onend is  *)
(* counted, whether recognitionRef still holds it or not, because its      *)
(* handlers stay attached and none of them asks which object fired.        *)
(* After stop() an object still fires onend; after abort() it fires        *)
(* onerror("aborted") and onend.  start() and resume() are async: the      *)
(* call returns at await ensureMicPermission() and its continuation runs   *)
(* later, after any handlers that came in between.  The page is served     *)
(* from a secure context and stays mounted.                                *)
(***************************************************************************)
\* both files of the hook
HookFiles == {"src/hooks/useSpeechRecognition.ts", "src/unnamed/part_001"}

\* event.error values: those the handler names and one it does not
HookErrors == {"no-speech", "aborted", "not-allowed", "service-not-allowed",
               "language-not-supported", "network", "audio-capture"}

\* SpeechRecognition objects that were started and have yet to fire onend,
\* counting the calls of start() and resume() that may still create one
MaxRecognizers == 3

\* the hook as one record
Hook ==
  [status |-> status, recognitionRef |-> recognitionRef,
   superseded |-> superseded, restartTimerRef |-> restartTimerRef,
   isStartingRef |-> isStartingRef, speechError |-> speechError,
   created |-> "none"]

\* the next state of the hook is the record h
HookBecomes(h) ==
  /\ status' = h.status
  /\ recognitionRef' = h.recognitionRef
  /\ superseded' = h.superseded
  /\ restartTimerRef' = h.restartTimerRef
  /\ isStartingRef' = h.isStartingRef
  /\ speechError' = h.speechError
  /\ created' = h.created

\* the object that recognitionRef holds was started and has not ended
Live(ref) == ref \in {"started", "stopping"}

\* objects that were started and have not ended
LiveCount ==
  (IF Live(recognitionRef) THEN 1 ELSE 0)
    + superseded.stopping + superseded.aborted

updateStatus(h, s) == [h EXCEPT !.status = s]

clearRestartTimer(h) == [h EXCEPT !.restartTimerRef = FALSE]

\* onErrorRef.current?.(msg), which the page hands to setSpeechError
onError(h, msg) == [h EXCEPT !.speechError = msg]

\* createAndStart: nothing while isStartingRef is set; else abort the
\* object that recognitionRef holds, make a new one, attach the handlers,
\* store it in recognitionRef and call start() on it
createAndStart(h, throws) ==
  IF ~isSupported THEN h
  ELSE IF h.isStartingRef THEN h
  ELSE [h EXCEPT
          !.superseded.aborted =
             IF Live(h.recognitionRef) THEN @ + 1 ELSE @,
          !.recognitionRef = IF throws THEN "unstarted" ELSE "started",
          !.isStartingRef = ~throws,
          !.speechError = IF throws THEN "could-not-start" ELSE @,
          !.created = IF throws THEN "threw" ELSE "started"]

\* the continuation of start() and resume() once the microphone is
\* granted: clearRestartTimer(), updateStatus("listening"),
\* createAndStart()
listen(h, throws) ==
  createAndStart(updateStatus(clearRestartTimer(h), "listening"), throws)

\* stop(): clearRestartTimer(), updateStatus("idle"), stop() on the object
\* that recognitionRef holds, recognitionRef.current = null,
\* isStartingRef.current = false
stop(h) ==
  [updateStatus(clearRestartTimer(h), "idle") EXCEPT
     !.superseded.stopping =
        IF Live(h.recognitionRef) THEN @ + 1 ELSE @,
     !.recognitionRef = "null",
     !.isStartingRef = FALSE]

\* pause(): clearRestartTimer(), updateStatus("paused"), stop() on the
\* object that recognitionRef holds and keeps holding,
\* isStartingRef.current = false
pause(h) ==
  [updateStatus(clearRestartTimer(h), "paused") EXCEPT
     !.recognitionRef = IF @ = "started" THEN "stopping" ELSE @,
     !.isStartingRef = FALSE]

\* a variant of rec.onend that leaves isStartingRef as it is
onendKeepStarting(h) ==
  [h EXCEPT !.restartTimerRef = IF h.status = "listening" THEN TRUE ELSE @]

\* rec.onend: isStartingRef.current = false, and the restart timer is set
\* when the status is "listening"
onend(h) ==
  [h EXCEPT !.isStartingRef = FALSE,
            !.restartTimerRef = IF h.status = "listening" THEN TRUE ELSE @]

\* the callback of the restart timer
restart(h, throws) ==
  IF h.status = "listening" THEN createAndStart(h, throws) ELSE h

\* the errors on which rec.onerror returns at once
SilentErrors == {"no-speech", "aborted"}

\* the errors on which rec.onerror sets the status to "idle"
FatalErrors(file) ==
  {"not-allowed", "service-not-allowed"}
    \cup (IF file = "src/unnamed/part_001"
            THEN {"language-not-supported"} ELSE {})

\* a variant of rec.onerror that reports a fatal error and keeps the status
onerrorKeepStatus(h, e, file) ==
  IF e \in SilentErrors THEN h ELSE onError(h, e)

\* rec.onerror; the message is named by the error it is about
onerror(h, e, file) ==
  IF e \in SilentErrors THEN h
  ELSE IF e \in FatalErrors(file) THEN updateStatus(onError(h, e), "idle")
  ELSE onError(h, e)

\* what the actions of the hook leave alone
hookFrame == <<sessionVars, prevCursor, heard, nFinal, recognition,
               scriptText, isSupported, hookFile, callVars, batchVars>>

\* a variant of handlePlay whose start() sets "listening" before it awaits
\* the microphone
StartEager ==
  /\ mode = "edit"
  /\ LiveCount + awaiting.start + awaiting.resume < MaxRecognizers
  /\ mode' = "present"
  /\ IF isSupported
       THEN /\ HookBecomes(updateStatus(onError(Hook, "null"), "listening"))
            /\ awaiting' = [awaiting EXCEPT !.start = @ + 1]
       ELSE /\ HookBecomes(onError(updateStatus(Hook, "unsupported"),
                                   "unsupported"))
            /\ UNCHANGED awaiting
  /\ lastOp' = "start"
  /\ UNCHANGED <<lastError, hookFrame>>

\* handlePlay: setSpeechError(null), setMode("present"), speech.start() as
\* far as its await; on a browser without SpeechRecognition start() sets
\* "unsupported", reports and returns
Start ==
  /\ mode = "edit"
  /\ LiveCount + awaiting.start + awaiting.resume < MaxRecognizers
  /\ mode' = "present"
  /\ IF isSupported
       THEN /\ HookBecomes(onError(Hook, "null"))
            /\ awaiting' = [awaiting EXCEPT !.start = @ + 1]
       ELSE /\ HookBecomes(onError(updateStatus(Hook, "unsupported"),
                                   "unsupported"))
            /\ UNCHANGED awaiting
  /\ lastOp' = "start"
  /\ UNCHANGED <<lastError, hookFrame>>

\* the rest of start() after await ensureMicPermission(): when it threw,
\* it has reported and start() sets "idle"
StartSettled ==
  \E granted \in BOOLEAN, throws \in BOOLEAN :
    /\ awaiting.start > 0
    /\ awaiting' = [awaiting EXCEPT !.start = @ - 1]
    /\ IF granted
         THEN /\ HookBecomes(listen(Hook, throws))
              /\ lastOp' = "startGranted"
         ELSE /\ ~throws
              /\ HookBecomes(updateStatus(onError(Hook, "mic-failed"), "idle"))
              /\ lastOp' = "startRefused"
    /\ UNCHANGED <<mode, lastError, hookFrame>>

\* handleStop: speech.stop(), setMode("edit")
Stop ==
  /\ mode = "present"
  /\ HookBecomes(stop(Hook))
  /\ mode' = "edit"
  /\ lastOp' = "stop"
  /\ UNCHANGED <<awaiting, lastError, hookFrame>>

\* the auto-stop effect: speech.stop() when the tracker completes while
\* the status is "listening", which takes a recognizer that still delivers
\* results
AutoStopEffect ==
  /\ status = "listening"
  /\ Live(recognitionRef) \/ superseded.stopping > 0
  /\ HookBecomes(stop(Hook))
  /\ lastOp' = "autoStop"
  /\ UNCHANGED <<mode, awaiting, lastError, hookFrame>>

\* handlePauseResume while the status is "listening": speech.pause()
Pause ==
  /\ mode = "present"
  /\ status = "listening"
  /\ HookBecomes(pause(Hook))
  /\ lastOp' = "pause"
  /\ UNCHANGED <<mode, awaiting, lastError, hookFrame>>

\* handlePauseResume while the status is "paused": speech.resume() as far
\* as its await
Resume ==
  /\ mode = "present"
  /\ status = "paused"
  /\ LiveCount + awaiting.start + awaiting.resume < MaxRecognizers
  /\ IF isSupported
       THEN /\ HookBecomes(Hook)
            /\ awaiting' = [awaiting EXCEPT !.resume = @ + 1]
       ELSE /\ HookBecomes(updateStatus(Hook, "unsupported"))
            /\ UNCHANGED awaiting
  /\ lastOp' = "resume"
  /\ UNCHANGED <<mode, lastError, hookFrame>>

\* the rest of resume() after await ensureMicPermission(): when it threw,
\* it has reported and resume() sets "paused"
ResumeSettled ==
  \E granted \in BOOLEAN, throws \in BOOLEAN :
    /\ awaiting.resume > 0
    /\ awaiting' = [awaiting EXCEPT !.resume = @ - 1]
    /\ IF granted
         THEN /\ HookBecomes(listen(Hook, throws))
              /\ lastOp' = "resumeGranted"
         ELSE /\ ~throws
              /\ HookBecomes(updateStatus(onError(Hook, "mic-failed"),
                                          "paused"))
              /\ lastOp' = "resumeRefused"
    /\ UNCHANGED <<mode, lastError, hookFrame>>

\* rec.onend of the object that recognitionRef holds
OnEndHeld ==
  /\ Live(recognitionRef)
  /\ HookBecomes([onend(Hook) EXCEPT !.recognitionRef = "ended"])
  /\ lastOp' = "endHeld"
  /\ UNCHANGED <<mode, awaiting, lastError, hookFrame>>

\* rec.onend of an object that recognitionRef no longer holds
OnEndSuperseded ==
  \E kind \in {"stopping", "aborted"} :
    /\ superseded[kind] > 0
    /\ HookBecomes([onend(Hook) EXCEPT !.superseded[kind] = @ - 1])
    /\ lastOp' = "endSuperseded"
    /\ UNCHANGED <<mode, awaiting, lastError, hookFrame>>

\* the restart timer fires
RestartTimer ==
  \E throws \in BOOLEAN :
    /\ restartTimerRef
    /\ throws => status = "listening"
    /\ HookBecomes(restart([Hook EXCEPT !.restartTimerRef = FALSE], throws))
    /\ lastOp' = "timer"
    /\ UNCHANGED <<mode, awaiting, lastError, hookFrame>>

\* rec.onerror: "aborted" comes from an object that createAndStart
\* aborted, any other error from one that was not
OnError ==
  \E e \in HookErrors :
    /\ IF e = "aborted"
         THEN superseded.aborted > 0
         ELSE Live(recognitionRef) \/ superseded.stopping > 0
    /\ HookBecomes(onerror(Hook, e, hookFile))
    /\ lastError' = e
    /\ lastOp' = "error"
    /\ UNCHANGED <<mode, awaiting, hookFrame>>

HookNext ==
  \/ Start
  \/ StartSettled
  \/ Stop
  \/ AutoStopEffect
  \/ Pause
  \/ Resume
  \/ ResumeSettled
  \/ OnEndHeld
  \/ OnEndSuperseded
  \/ RestartTimer
  \/ OnError

\* the page at mount, in either browser and with either file of the hook
InitHook ==
  /\ tokens = InitSession.tokens
  /\ cursorIndex = InitSession.cursorIndex
  /\ isComplete = InitSession.isComplete
  /\ tokensRef = InitSession.tokensRef
  /\ spokenBufferRef = InitSession.spokenBufferRef
  /\ interimWordsRef = InitSession.interimWordsRef
  /\ lastOp = "init"
  /\ prevCursor = -1
  /\ heard = <<>>
  /\ nFinal = 0
  /\ NoCall
  /\ NoRecognizer
  /\ mode = "edit"
  /\ scriptText = SampleScript
  /\ speechError = "null"
  /\ isSupported \in BOOLEAN
  /\ hookFile \in HookFiles
  /\ NoBatch

SpecHook == InitHook /\ [][HookNext]_vars

\* what a step leaves of the recognizers as it found them
SameRecognizers ==
  /\ created' = "none"
  /\ recognitionRef' = recognitionRef
  /\ superseded' = superseded

\* C38: start() on a browser without SpeechRecognition sets "unsupported"
\* and makes no recognizer; start() whose microphone request fails ends
\* with "idle" and has made none; resume() whose request fails ends with
\* "paused" and has made none; the status becomes "listening" only in the
\* continuation of a start() or resume() whose request succeeded.
C38_FailedStartsMakeNoRecognizer ==
  [][/\ (lastOp' = "start" /\ ~isSupported)
          => (status' = "unsupported" /\ SameRecognizers
              /\ awaiting' = awaiting)
     /\ lastOp' = "startRefused" => (status' = "idle" /\ SameRecognizers)
     /\ lastOp' = "resumeRefused" => (status' = "paused" /\ SameRecognizers)
     /\ (status # "listening" /\ status' = "listening")
          => lastOp' \in {"startGranted", "resumeGranted"}]_vars

\* a resume() was refused the microphone after a pause
C38_Witness ==
  /\ lastOp = "resumeRefused"
  /\ status = "paused"
  /\ speechError = "mic-failed"
  /\ created = "none"

\* a step of rec.onend or of the restart timer
RestartPath == {"endHeld", "endSuperseded", "timer"}

\* C37 as claimed: rec.onerror leaves the status and the reported error
\* alone on "no-speech" and "aborted"; reports and sets "idle" on
\* "not-allowed" and "service-not-allowed"; reports and leaves the status
\* alone on every other error.
C37_ErrorMapping ==
  [][lastOp' = "error" =>
       IF lastError' \in {"no-speech", "aborted"}
         THEN status' = status /\ speechError' = speechError
       ELSE IF lastError' \in {"not-allowed", "service-not-allowed"}
         THEN status' = "idle" /\ speechError' = lastError'
       ELSE status' = status /\ speechError' = lastError']_vars

\* C37, amended: as claimed, but in src/unnamed/part_001
\* "language-not-supported" also sets "idle"; and while the status is
\* "idle", rec.onend sets no restart timer and neither it nor the timer
\* makes a recognizer.
C37_ErrorMappingByFile ==
  [][/\ lastOp' = "error" =>
          IF lastError' \in {"no-speech", "aborted"}
            THEN status' = status /\ speechError' = speechError
          ELSE IF \/ lastError' \in {"not-allowed", "service-not-allowed"}
                  \/ /\ lastError' = "language-not-supported"
                     /\ hookFile = "src/unnamed/part_001"
            THEN status' = "idle" /\ speechError' = lastError'
          ELSE status' = status /\ speechError' = lastError'
     /\ (lastOp' \in RestartPath /\ status = "idle")
          => (created' = "none" /\ (restartTimerRef' => restartTimerRef))]_vars

\* the recognizer that listens has reported "language-not-supported" in
\* src/unnamed/part_001
C37_Witness ==
  /\ lastOp = "error"
  /\ lastError = "language-not-supported"
  /\ hookFile = "src/unnamed/part_001"
  /\ recognitionRef = "started"
  /\ status = "idle"
  /\ speechError = "language-not-supported"

\* C33 as claimed: rec.onend sets the restart timer, and the timer makes
\* a recognizer, only while the status is "listening"; and a recognizer is
\* made otherwise only by a start() or resume() that no stop() has
\* followed: the page is in edit mode exactly when handleStop came after
\* the last handlePlay, so none is made in edit mode.
C33_RestartOnlyWhileExpected ==
  [][/\ (lastOp' \in {"endHeld", "endSuperseded"}
          /\ restartTimerRef' /\ ~restartTimerRef) => status = "listening"
     /\ (lastOp' = "timer" /\ created' # "none") => status = "listening"
     /\ created' # "none"
          => lastOp' \in {"timer", "startGranted", "resumeGranted"}
     /\ (created' # "none" /\ lastOp' # "timer") => mode = "present"]_vars

\* C35 as claimed: of the recognizers that were started, at most one has
\* neither ended nor been aborted.
C35_AtMostOneRecognizer ==
  (IF Live(recognitionRef) THEN 1 ELSE 0) + superseded.stopping <= 1

\* C36 as claimed: while recognitionRef holds a recognizer that is started
\* and has not ended, the restart timer, whichever rec.onend set it, makes
\* no other recognizer, so the one that listens is neither aborted nor
\* replaced.
C36_RunningRecognizerIsKept ==
  [][(lastOp' = "timer" /\ recognitionRef = "started")
       => (/\ created' = "none"
           /\ recognitionRef' = "started"
           /\ superseded' = superseded)]_vars

\* a timer that was set and is not cleared fires: setTimeout runs its
\* callback once the delay has passed
SpecHookFair == SpecHook /\ WF_vars(RestartTimer)

\* a recognizer has just fired onend while the status is "listening"
EndedWhileListening ==
  /\ lastOp \in {"endHeld", "endSuperseded"}
  /\ status = "listening"

====
